---- MODULE Spec2Model ----
(***************************************************************************)
(* lens-ai: the per-frame object detector (ObjectDetector) and the camera  *)
(* application (CameraApp): its video loop, capture, review and swipe.     *)
(*                                                                         *)
(* Numbers.  The JavaScript code computes with IEEE doubles.  The model    *)
(* keeps every quotient as an exact fraction <<n, d>> (d > 0, lowest       *)
(* terms) and compares fractions by cross-multiplication.  For the pixel   *)
(* sized integers of a frame the double comparison and the exact one       *)
(* agree: a decimal constant of the code (0.3, 0.5, 0.67, ...) and a       *)
(* quotient w/h that equals it are rounded to the same double, and two     *)
(* different quotients of integers below 2^20 differ by far more than an   *)
(* ulp.  Circularity (4*pi*area/perimeter^2) is irrational in general; a   *)
(* contour carries it in thousandths, as the value the geometry library    *)
(* returned for it.                                                        *)
(***************************************************************************)
EXTENDS Integers, Sequences, FiniteSets, TLC

VARIABLES
    \* ObjectDetector fields
    isInitialized,      \* this.isInitialized
    detectedObjects,    \* this.detectedObjects
    contours,           \* this.contours: what cv.findContours last stored
    buffers,            \* this.src, dst, gray, contours, hierarchy: what each field holds
    srcSize,            \* <<width, height>> of the Mat in this.src (<<0, 0>> when null)
    leaked,             \* some Mat a field once held is neither held nor released
    \* the last processFrame call, as its caller saw it
    returned,           \* the sequence the last processFrame call returned
    threw,              \* TRUE iff the last processFrame call let an exception out
    failedAt,           \* how the last processFrame call ended: "no call" yet,
                        \* "not initialized", "none" (no failure), or the stage that failed
    prevFailed,         \* whether the processFrame call before the last one failed
    candidates,         \* what analyzeContours' loop pushed in the last call
    survivors,          \* what removeOverlappingDetections returned in the last call
    carried,            \* how many detections of earlier calls the last call left in place
    callSizes,          \* <<canvas size, srcSize>> as the last processFrame call found them
    \* CameraApp fields and the browser's animation-frame queue
    streaming,          \* this.streaming
    rafPending,         \* frame callbacks requestAnimationFrame has queued
    cbScheduled,        \* requestAnimationFrame calls made by the last frame callback
    cbSawStreaming,     \* whether the last frame callback found streaming true
    uiFailed,           \* whether updateDetectionUI threw in the last frame callback
    videoSet,           \* this.video is set (initializeCamera has run)
    canvasSize,         \* <<this.canvas.width, this.canvas.height>>
    status,             \* what updateStatus last showed: "starting" | "ready" | "error"
                        \* | "enhanced" | "enhance failed" | "saved" | "next"
    appInit,            \* what the application's last objectDetector.initialize call
                        \* returned: "no call" | "true" | "false"
    \* one contour under the pure functions (specification SpecShape)
    shape,              \* the contour's descriptors
    label,              \* classifyObject's / the chosen label, or "none"
    score,              \* calculateConfidence's result, or <<0, 1>> before it ran
    pc,                 \* "new" | "classified" | "scored"
    \* the derived views of the detection set (specification SpecScene)
    summary,            \* <<what getDetectionSummary last returned>>, <<>> before
    description,        \* what generateSceneDescription last returned, <<>> before
    \* two rectangles under calculateOverlap (specification SpecOverlap)
    pairRect1,          \* the first rectangle
    pairRect2,          \* the second rectangle
    pairOverlap,        \* calculateOverlap's result, <<0, 1>> before it ran
    retained,           \* what removeOverlappingDetections kept of the two, <<>> before
    pcPair,             \* "new" | "measured" | "suppressed"
    \* CameraApp: capture, review and swipe (specification SpecReview)
    objectDetector,     \* this.objectDetector: "null" | "present"
    currentOriginalImage,   \* 0 for null, n for the data URL of the n-th capture
    currentEnhancedImage,   \* 0 for null, n for the enhancement of the n-th capture
    currentPrompt,      \* 0 for null, n for the prompt of the n-th capture
    reviewActive,       \* reviewContainer is shown (and cameraView hidden)
    overlayActive,      \* processingOverlay is shown
    captureBtnDisabled, \* captureBtn.disabled
    captureCount,       \* this.stats.captureCount
    shot,               \* capturePhoto calls that went past line 397
    pendingShot,        \* the capture whose enhanceImage call is outstanding, 0 if none
    lastCapture,        \* how the last capturePhoto call went up to its await:
                        \* "none" yet | "ignored" | "submitted" | "error path"
    backTimers,         \* saveImage's backToCamera timers not fired yet
    backRan,            \* backToCamera has run since the last capturePhoto began
    touch,              \* this.touch: [startX, currentX, isDragging]
    moved,              \* a touchmove was handled since the last touchstart
    lastSwipe,          \* the last touchend: what it saved, and whether the gesture moved
    orientationThrew    \* the last handleOrientationChange call threw

detVars == <<isInitialized, detectedObjects, contours, buffers, srcSize, leaked>>
callVars ==
    <<returned, threw, failedAt, prevFailed, candidates, survivors, carried, callSizes>>
appVars ==
    <<streaming, rafPending, cbScheduled, cbSawStreaming, uiFailed, videoSet,
      canvasSize, status, appInit>>
shapeVars == <<shape, label, score, pc>>
sceneVars == <<summary, description>>
pairVars == <<pairRect1, pairRect2, pairOverlap, retained, pcPair>>
captureVars ==
    <<currentOriginalImage, currentEnhancedImage, currentPrompt, reviewActive,
      overlayActive, captureBtnDisabled, captureCount, shot, pendingShot,
      lastCapture, backTimers, backRan>>
touchVars == <<touch, moved, lastSwipe>>
reviewVars == <<objectDetector, captureVars, touchVars, orientationThrew>>
restVars == <<pairVars, reviewVars>>
vars == <<detVars, callVars, appVars, shapeVars, sceneVars, restVars>>

----------------------------------------------------------------------------
(* Exact fractions standing for the code's doubles.                        *)

RECURSIVE GCD(_, _)
GCD(a, b) == IF b = 0 THEN a ELSE GCD(b, a % b)

Frac(n, d) ==
    LET g == GCD(IF n < 0 THEN -n ELSE n, d)
    IN  <<n \div g, d \div g>>

RLt(a, b) == a[1] * b[2] < b[1] * a[2]
RLe(a, b) == a[1] * b[2] <= b[1] * a[2]
RGt(a, b) == RLt(b, a)
RGe(a, b) == RLe(b, a)
RMin(a, b) == IF RLt(b, a) THEN b ELSE a
RMax(a, b) == IF RGt(b, a) THEN b ELSE a
RSub(a, b) == Frac(a[1] * b[2] - b[1] * a[2], a[2] * b[2])
RAbs(a) == IF a[1] < 0 THEN <<-a[1], a[2]>> ELSE a
RAdd(a, b) == Frac(a[1] * b[2] + b[1] * a[2], a[2] * b[2])
RDivInt(a, n) == Frac(a[1], a[2] * n)

----------------------------------------------------------------------------
(* ObjectDetector: constructor constants.                                  *)

minContourArea == 1500
humanAspectRatioMin == <<3, 10>>
humanAspectRatioMax == <<8, 10>>

HUMAN == "person"
FACE == "face"
RECTANGULAR == "rectangular object"
CIRCULAR == "circular object"
SQUARE == "square object"
VERTICAL == "vertical object"
HORIZONTAL == "horizontal object"
SMALL == "small object"
LARGE == "large object"
UNKNOWN == "object"

objectTypes ==
    {HUMAN, FACE, RECTANGULAR, CIRCULAR, SQUARE, VERTICAL, HORIZONTAL,
     SMALL, LARGE, UNKNOWN}

----------------------------------------------------------------------------
(* ObjectDetector: the pure functions of the per-contour pass.             *)

isLikelyHuman_Never(rect, aspectRatio, area) == FALSE

isLikelyHuman(rect, aspectRatio, area) ==
    IF RLt(aspectRatio, humanAspectRatioMin) \/ RGt(aspectRatio, humanAspectRatioMax)
    THEN FALSE
    ELSE IF area < 10000 \/ area > 200000
    THEN FALSE
    ELSE IF rect.height < 100
    THEN FALSE
    ELSE TRUE

classifyObject_CircularFirst(rect, aspectRatio, extent, circularity, area) ==
    IF RGt(circularity, <<7, 10>>) THEN CIRCULAR
    ELSE IF isLikelyHuman(rect, aspectRatio, area) THEN HUMAN
    ELSE IF RGe(aspectRatio, <<8, 10>>) /\ RLe(aspectRatio, <<12, 10>>) THEN SQUARE
    ELSE IF RGt(aspectRatio, <<15, 10>>) \/ RLt(aspectRatio, <<67, 100>>)
    THEN (IF RGt(aspectRatio, <<15, 10>>) THEN HORIZONTAL ELSE VERTICAL)
    ELSE IF area > 50000 THEN LARGE
    ELSE IF area < 5000 THEN SMALL
    ELSE RECTANGULAR

classifyObject(rect, aspectRatio, extent, circularity, area) ==
    IF isLikelyHuman(rect, aspectRatio, area) THEN HUMAN
    ELSE IF RGt(circularity, <<7, 10>>) THEN CIRCULAR
    ELSE IF RGe(aspectRatio, <<8, 10>>) /\ RLe(aspectRatio, <<12, 10>>) THEN SQUARE
    ELSE IF RGt(aspectRatio, <<15, 10>>) \/ RLt(aspectRatio, <<67, 100>>)
    THEN (IF RGt(aspectRatio, <<15, 10>>) THEN HORIZONTAL ELSE VERTICAL)
    ELSE IF area > 50000 THEN LARGE
    ELSE IF area < 5000 THEN SMALL
    ELSE RECTANGULAR

rawConfidence_ExtentOnly(objectType, aspectRatio, circularity, extent) ==
    RMin(<<7, 10>>, extent)

rawConfidence(objectType, aspectRatio, circularity, extent) ==
    IF objectType = HUMAN
    THEN (IF RGe(aspectRatio, <<4, 10>>) /\ RLe(aspectRatio, <<6, 10>>)
          THEN <<4, 5>> ELSE <<3, 5>>)
    ELSE IF objectType = CIRCULAR
    THEN RMin(<<9, 10>>, circularity)
    ELSE IF objectType = SQUARE
    THEN RSub(<<1, 1>>, RAbs(RSub(aspectRatio, <<1, 1>>)))
    ELSE RMin(<<7, 10>>, extent)

calculateConfidence_NoClamp(objectType, aspectRatio, circularity, extent) ==
    rawConfidence(objectType, aspectRatio, circularity, extent)

calculateConfidence(objectType, aspectRatio, circularity, extent) ==
    RMax(<<1, 10>>,
         RMin(<<9, 10>>, rawConfidence(objectType, aspectRatio, circularity, extent)))

----------------------------------------------------------------------------
(* ObjectDetector.analyzeContours: one Detection per kept contour.  A      *)
(* contour is what cv.contourArea, cv.boundingRect and cv.arcLength report *)
(* for it: [area, rect |-> [x, y, width, height], circularity (in          *)
(* thousandths)].  idx is the contour's index in this.contours; it stands  *)
(* for the identity of the JavaScript object.                              *)

makeDetection(i, contour) ==
    LET rect == contour.rect
        area == contour.area
        aspectRatio == Frac(rect.width, rect.height)
        extent == Frac(area, rect.width * rect.height)
        circularity == Frac(contour.circularity, 1000)
        objectType == classifyObject(rect, aspectRatio, extent, circularity, area)
    IN  [idx |-> i,
         type |-> objectType,
         rect |-> rect,
         area |-> area,
         aspectRatio |-> aspectRatio,
         circularity |-> circularity,
         extent |-> extent,
         confidence |-> calculateConfidence(objectType, aspectRatio, circularity, extent)]

keepContour_Above(area) == area > minContourArea

keepContour(area) == ~(area < minContourArea)

(* The loop of analyzeContours over contours first..upto, pushing onto     *)
(* detections (this.detectedObjects).                                      *)
RECURSIVE analyzeLoop(_, _, _, _)
analyzeLoop(detections, cs, first, upto) ==
    IF first > upto THEN detections
    ELSE analyzeLoop(
            IF keepContour(cs[first].area)
            THEN Append(detections, makeDetection(first, cs[first]))
            ELSE detections,
            cs, first + 1, upto)

----------------------------------------------------------------------------
(* ObjectDetector: suppression, ranking, truncation.                       *)

Max2(a, b) == IF a > b THEN a ELSE b
Min2(a, b) == IF a < b THEN a ELSE b

(* The variant that divides by the sum of the two areas. *)
calculateOverlap_AreaSum(rect1, rect2) ==
    LET x1 == Max2(rect1.x, rect2.x)
        y1 == Max2(rect1.y, rect2.y)
        x2 == Min2(rect1.x + rect1.width, rect2.x + rect2.width)
        y2 == Min2(rect1.y + rect1.height, rect2.y + rect2.height)
        intersection == (x2 - x1) * (y2 - y1)
        area1 == rect1.width * rect1.height
        area2 == rect2.width * rect2.height
    IN  IF x2 <= x1 \/ y2 <= y1 THEN <<0, 1>> ELSE Frac(intersection, area1 + area2)

calculateOverlap(rect1, rect2) ==
    LET x1 == Max2(rect1.x, rect2.x)
        y1 == Max2(rect1.y, rect2.y)
        x2 == Min2(rect1.x + rect1.width, rect2.x + rect2.width)
        y2 == Min2(rect1.y + rect1.height, rect2.y + rect2.height)
        intersection == (x2 - x1) * (y2 - y1)
        area1 == rect1.width * rect1.height
        area2 == rect2.width * rect2.height
        union == area1 + area2 - intersection
    IN  IF x2 <= x1 \/ y2 <= y1 THEN <<0, 1>> ELSE Frac(intersection, union)

overlapThreshold == <<1, 2>>

exceedsThreshold_Inclusive(overlap) == RGe(overlap, overlapThreshold)

(* The variant with the threshold at 0.9. *)
exceedsThreshold_Loose(overlap) == RGt(overlap, <<9, 10>>)

exceedsThreshold(overlap) == RGt(overlap, overlapThreshold)

RECURSIVE nmsLoop(_, _, _)
nmsLoop(detections, i, filtered) ==
    IF i > Len(detections) THEN filtered
    ELSE LET keep == \A j \in 1..Len(filtered) :
                        ~exceedsThreshold(
                            calculateOverlap(detections[i].rect, filtered[j].rect))
         IN  nmsLoop(detections, i + 1,
                     IF keep THEN Append(filtered, detections[i]) ELSE filtered)

(* The variant that lets a later, more confident candidate replace the     *)
(* accepted detections it overlaps.                                        *)
RECURSIVE nmsReplaceLoop(_, _, _)
nmsReplaceLoop(detections, i, filtered) ==
    IF i > Len(detections) THEN filtered
    ELSE LET d == detections[i]
             hits == {j \in 1..Len(filtered) :
                        exceedsThreshold(calculateOverlap(d.rect, filtered[j].rect))}
             wins == \A j \in hits : RGt(d.confidence, filtered[j].confidence)
             rest == SelectSeq(filtered,
                        LAMBDA f : ~exceedsThreshold(calculateOverlap(d.rect, f.rect)))
         IN  nmsReplaceLoop(detections, i + 1,
                IF hits = {} THEN Append(filtered, d)
                ELSE IF wins THEN Append(rest, d)
                ELSE filtered)

removeOverlappingDetections_Replace(detections) == nmsReplaceLoop(detections, 1, <<>>)

removeOverlappingDetections(detections) == nmsLoop(detections, 1, <<>>)

(* Array.prototype.sort with (a, b) => b.confidence - a.confidence: a      *)
(* stable sort (ECMAScript 2019), descending by confidence.                *)
RECURSIVE insertSorted(_, _)
insertSorted(sorted, d) ==
    IF sorted = <<>> THEN <<d>>
    ELSE IF RLt(Head(sorted).confidence, d.confidence)
    THEN <<d>> \o sorted
    ELSE <<Head(sorted)>> \o insertSorted(Tail(sorted), d)

RECURSIVE sortLoop(_, _, _)
sortLoop(detections, i, sorted) ==
    IF i > Len(detections) THEN sorted
    ELSE sortLoop(detections, i + 1, insertSorted(sorted, detections[i]))

sortByConfidence(detections) == sortLoop(detections, 1, <<>>)

maxDetections == 10

truncate_Off(detections) == detections

truncate(detections) ==
    IF Len(detections) > maxDetections
    THEN SubSeq(detections, 1, maxDetections)
    ELSE detections

(* postProcessDetections after the suppression: sort, then limit. *)
rankDetections_TruncateFirst(filtered) == sortByConfidence(truncate(filtered))

rankDetections(filtered) == truncate(sortByConfidence(filtered))

----------------------------------------------------------------------------
(* Frames.  A frame is the sequence of contours cv.findContours extracts   *)
(* from it, in discovery order.                                            *)

MaxShort == 2       \* short frames: every arrangement of Core up to this length
MaxContours == 13   \* the longest frame
MaxFailAt == 3      \* the contour loop fails on one of the first MaxFailAt contours
MaxAllocFail == 2   \* initialize fails at one of its first MaxAllocFail allocations

Contour(area, x, y, w, h, circ) ==
    [area |-> area, rect |-> [x |-> x, y |-> y, width |-> w, height |-> h],
     circularity |-> circ]

(* Three outer contours on one spot, their regions disjoint: a standing    *)
(* person, mostly below the other two; a thin arc spanning the upper half  *)
(* of the person's box (IoU with the person exactly 1/2); a near-ellipse   *)
(* inside that arc, its box three rows taller (IoU with the person 0.512), *)
(* scored above the person.                                                *)
Core ==
    <<Contour(12000, 100, 100, 100, 250, 300),
      Contour(2500, 100, 100, 100, 125, 100),
      Contour(9800, 100, 100, 100, 128, 900)>>

(* A row of small blobs, 100 px apart (12 to a row): the 2nd lies over the *)
(* 1st, the 3rd is below the area threshold, the 4th exactly on it; every  *)
(* 4th is a square.                                                        *)
Crowd(i) ==
    LET col == (i - 1) % 12
        row == (i - 1) \div 12
        sq == (i % 4 = 0)
        area == IF i = 3 THEN 1499
                ELSE IF i = 4 THEN 1500
                ELSE 1800 + 200 * ((7 * i) % 11)
    IN  Contour(area,
                100 * col - (IF i = 2 THEN 90 ELSE 0),
                300 * row,
                IF sq THEN 80 ELSE 90,
                IF sq THEN 80 ELSE 60,
                500)

(* The sequences of distinct members of S, up to length n: two outer       *)
(* contours of one frame are never the same outline.                       *)
RECURSIVE SeqsUpTo(_, _)
SeqsUpTo(S, n) ==
    IF n = 0 THEN {<<>>}
    ELSE LET shorter == SeqsUpTo(S, n - 1)
         IN  shorter \cup
             UNION {{Append(q, e) : e \in S \ {q[i] : i \in 1..Len(q)}} :
                        q \in shorter}

Reverse(q) == [i \in 1..Len(q) |-> q[Len(q) + 1 - i]]

CrowdFrame(n) == [i \in 1..n |-> Crowd(i)]

ShortFrames == SeqsUpTo({Core[i] : i \in 1..Len(Core)}, MaxShort)

Frames ==
    ShortFrames
    \cup {CrowdFrame(n) : n \in (MaxContours - 1)..MaxContours}
    \cup {Reverse(CrowdFrame(MaxContours))}

(* Sizes, <<width, height>> in pixels: what the video element reports, and *)
(* what a canvas handed to processFrame may have besides (empty, smaller,  *)
(* as many pixels in another shape, larger).                               *)
VideoSizes == {<<1280, 720>>}
CanvasSizes ==
    VideoSizes \cup {<<0, 0>>, <<640, 480>>, <<720, 1280>>, <<1920, 1080>>}

Pixels(size) == size[1] * size[2]

(* Every outline of the frame lies inside an image of this size. *)
Fits(frame, size) ==
    \A i \in 1..Len(frame) :
        /\ frame[i].rect.x >= 0 /\ frame[i].rect.y >= 0
        /\ frame[i].rect.x + frame[i].rect.width <= size[1]
        /\ frame[i].rect.y + frame[i].rect.height <= size[2]

(* What cv.findContours may extract when this.src was filled from an image *)
(* of another size (rows shifted, the rest of the buffer stale): no        *)
(* outline, or some outline.                                               *)
ScrambledFrames == SeqsUpTo({Core[i] : i \in 1..Len(Core)}, 1)

----------------------------------------------------------------------------
(* ObjectDetector.processFrame.  A stage of the pipeline may fail (the     *)
(* canvas or OpenCV.js throws); fail names the stage, and for the contour  *)
(* loop the contour it fails on.                                           *)

Stages ==
    <<"capture", "cvtColor", "preprocessImage", "findContours", "redraw",
      "analyzeContours", "postProcessDetections", "drawDetections">>

StageNo(s) == CHOOSE i \in 1..Len(Stages) : Stages[i] = s

NoFail == [stage |-> "none", at |-> 0]

Fails(frame) ==
    {NoFail}
    \cup {[stage |-> Stages[i], at |-> 0] :
            i \in (1..Len(Stages)) \ {StageNo("analyzeContours")}}
    \cup {[stage |-> "analyzeContours", at |-> k] :
            k \in 1..Min2(Len(frame), MaxFailAt)}

(* Whether stage s completed before the call ended. *)
Passed(fail, s) == fail.stage = "none" \/ StageNo(fail.stage) > StageNo(s)

(* Line 79: the previous frame's detections are dropped. *)
clearDetections_Keep(previous) == previous

clearDetections(previous) == <<>>

(* The try block of lines 77-110 encloses every stage. *)
insideTry_DrawOutside(stage) == stage # "drawDetections"

insideTry(stage) == TRUE

(* Lines 82-84: ctx.getImageData throws (IndexSizeError) for an empty      *)
(* canvas, and this.src.data.set throws (RangeError) when the image holds  *)
(* more bytes than this.src; both are RGBA, 4 bytes a pixel.               *)
captureRejects(canvas, size) ==
    \/ canvas[1] = 0 \/ canvas[2] = 0
    \/ 4 * Pixels(canvas) > 4 * Pixels(size)

(* What one processFrame call does to the detector det, and what its       *)
(* caller sees: canvas is the size of the canvas handed in, frame the      *)
(* contours cv.findContours extracts, fail the stage the environment makes *)
(* fail.                                                                   *)
processFrame(det, canvas, frame, fail) ==
    IF ~det.isInitialized
    THEN [detectedObjects |-> det.detectedObjects, contours |-> det.contours,
          returned |-> <<>>, threw |-> FALSE, failedAt |-> "not initialized",
          candidates |-> <<>>, survivors |-> <<>>,
          carried |-> Len(det.detectedObjects),
          callSizes |-> <<canvas, det.srcSize>>]
    ELSE
    LET cleared == clearDetections(det.detectedObjects)
        f == IF captureRejects(canvas, det.srcSize)
             THEN [stage |-> "capture", at |-> 0]
             ELSE fail
        cs == IF Passed(f, "findContours") THEN frame ELSE det.contours
        upto == IF f.stage = "analyzeContours" THEN f.at - 1 ELSE Len(cs)
        pushed == IF Passed(f, "redraw")
                  THEN analyzeLoop(cleared, cs, 1, upto)
                  ELSE cleared
        posted == Passed(f, "postProcessDetections")
        filtered == IF posted THEN removeOverlappingDetections(pushed) ELSE <<>>
        held == IF posted THEN rankDetections(filtered) ELSE pushed
        failed == f.stage # "none"
    IN  [detectedObjects |-> held,
         contours |-> cs,
         returned |-> IF failed THEN <<>> ELSE held,
         threw |-> failed /\ ~insideTry(f.stage),
         failedAt |-> f.stage,
         candidates |-> pushed,
         survivors |-> filtered,
         carried |-> Len(cleared),
         callSizes |-> <<canvas, det.srcSize>>]

(* The canvases and frames a call may meet, out of the camera's feed: no   *)
(* canvas and no frame matters when the call ends at line 75, no frame     *)
(* when it ends before line 93; an image of the working size shows a frame *)
(* of the feed; any other image leaves this.src scrambled.                 *)
CanvasesSeen(det) == IF det.isInitialized THEN CanvasSizes ELSE VideoSizes

endsEarly(det, canvas) == ~det.isInitialized \/ captureRejects(canvas, det.srcSize)

FramesSeen(det, canvas, feed) ==
    IF endsEarly(det, canvas) THEN {<<>>}
    ELSE IF canvas = det.srcSize THEN {fr \in feed : Fits(fr, canvas)}
    ELSE {fr \in ScrambledFrames : Fits(fr, det.srcSize)}

FailsSeen(det, canvas, frame) ==
    IF endsEarly(det, canvas) THEN {NoFail} ELSE Fails(frame)

----------------------------------------------------------------------------
(* ObjectDetector: the working buffers.  Each of the five fields is        *)
(* "null", or holds a Mat / MatVector that is "live", "deleted" (delete()  *)
(* was called on it once) or "redeleted" (delete() was called on it again: *)
(* the binding layer refuses the call by throwing).                        *)

BufferNames == <<"src", "dst", "gray", "contours", "hierarchy">>

BufferSet == {BufferNames[i] : i \in 1..Len(BufferNames)}

BufferNo(b) == CHOOSE i \in 1..Len(BufferNames) : BufferNames[i] = b

(* Which allocation of initialize throws: none (0), or one of the first.   *)
AllocFails == 0..Min2(MaxAllocFail, Len(BufferNames))

(* initialize(videoWidth, videoHeight): the five allocations of lines      *)
(* 56-60 in order; failsAt = 0 when none throws, else the number of the    *)
(* one that does.  An assignment drops the field's previous object without *)
(* deleting it.                                                            *)
initialize(det, videoWidth, videoHeight, failsAt) ==
    LET done == IF failsAt = 0 THEN Len(BufferNames) ELSE failsAt - 1
        assigned == {BufferNames[i] : i \in 1..done}
    IN  [buffers |-> [b \in BufferSet |->
                        IF b \in assigned THEN "live" ELSE det.buffers[b]],
         srcSize |-> IF "src" \in assigned
                     THEN <<videoWidth, videoHeight>> ELSE det.srcSize,
         leaked |-> det.leaked \/ \E b \in assigned : det.buffers[b] = "live",
         isInitialized |-> IF failsAt = 0 THEN TRUE ELSE det.isInitialized,
         returned |-> (failsAt = 0),
         threw |-> FALSE]

(* cleanup(): delete() on every field that is not null, in order, then     *)
(* isInitialized = false.  The fields are not set to null; delete() on an  *)
(* object already deleted throws, which ends the call there.               *)
cleanup(det) ==
    LET stale == {i \in 1..Len(BufferNames) :
                    det.buffers[BufferNames[i]] \in {"deleted", "redeleted"}}
        stop == IF stale = {} THEN 0
                ELSE CHOOSE i \in stale : \A j \in stale : i <= j
        reached(b) == stop = 0 \/ BufferNo(b) <= stop
    IN  [buffers |-> [b \in BufferSet |->
                        IF ~reached(b) \/ det.buffers[b] = "null"
                        THEN det.buffers[b]
                        ELSE IF det.buffers[b] = "live" THEN "deleted"
                        ELSE "redeleted"],
         isInitialized |-> IF stop = 0 THEN FALSE ELSE det.isInitialized,
         threw |-> stop # 0]

(* The detector as the fields hold it now. *)
Detector ==
    [isInitialized |-> isInitialized, detectedObjects |-> detectedObjects,
     contours |-> contours, buffers |-> buffers, srcSize |-> srcSize,
     leaked |-> leaked]

----------------------------------------------------------------------------
(* The detector under any sequence of calls.                               *)

Shape0 == Contour(1500, 0, 0, 50, 50, 500)

InitDetector ==
    /\ isInitialized = FALSE
    /\ detectedObjects = <<>>
    /\ contours = <<>>
    /\ buffers = [b \in BufferSet |-> "null"]
    /\ srcSize = <<0, 0>>
    /\ leaked = FALSE

InitCall ==
    /\ returned = <<>>
    /\ threw = FALSE
    /\ failedAt = "no call"
    /\ prevFailed = FALSE
    /\ candidates = <<>>
    /\ survivors = <<>>
    /\ carried = 0
    /\ callSizes = << <<0, 0>>, <<0, 0>> >>

InitApp ==
    /\ streaming = FALSE
    /\ rafPending = 0
    /\ cbScheduled = 0
    /\ cbSawStreaming = FALSE
    /\ uiFailed = FALSE
    /\ videoSet = FALSE
    /\ canvasSize = <<300, 150>>
    /\ status = "starting"
    /\ appInit = "no call"

InitShapeIdle ==
    /\ shape = Shape0
    /\ label = "none"
    /\ score = <<0, 1>>
    /\ pc = "idle"

InitSceneIdle ==
    /\ summary = <<>>
    /\ description = <<>>

InitPairIdle ==
    /\ pairRect1 = Shape0.rect
    /\ pairRect2 = Shape0.rect
    /\ pairOverlap = <<0, 1>>
    /\ retained = <<>>
    /\ pcPair = "idle"

(* CameraApp's constructor (lines 7-39), and initialize's line 50. *)
InitCapture ==
    /\ currentOriginalImage = 0
    /\ currentEnhancedImage = 0
    /\ currentPrompt = 0
    /\ reviewActive = FALSE
    /\ overlayActive = FALSE
    /\ captureBtnDisabled = FALSE
    /\ captureCount = 0
    /\ shot = 0
    /\ pendingShot = 0
    /\ lastCapture = "none"
    /\ backTimers = 0
    /\ backRan = FALSE

InitTouch ==
    /\ touch = [startX |-> 0, currentX |-> 0, isDragging |-> FALSE]
    /\ moved = FALSE
    /\ lastSwipe = [saved |-> "none", deltaX |-> 0, moved |-> FALSE]

InitReviewIdle ==
    /\ objectDetector = "present"
    /\ InitCapture
    /\ InitTouch
    /\ orientationThrew = FALSE

InitRestIdle == InitPairIdle /\ InitReviewIdle

Init ==
    /\ InitDetector /\ InitCall /\ InitApp /\ InitShapeIdle /\ InitSceneIdle
    /\ InitRestIdle

(* The detector's fields after an initialize call. *)
InitializeEffect(r) ==
    /\ isInitialized' = r.isInitialized
    /\ buffers' = r.buffers
    /\ srcSize' = r.srcSize
    /\ leaked' = r.leaked

Initialize ==
    \E size \in VideoSizes, failsAt \in AllocFails :
        \E r \in {initialize(Detector, size[1], size[2], failsAt)} :
            /\ InitializeEffect(r)
            /\ UNCHANGED <<detectedObjects, contours, callVars, appVars,
                           shapeVars, sceneVars, restVars>>

(* The detector's fields and the record of the call after processFrame. *)
ProcessFrameEffect(r) ==
    /\ detectedObjects' = r.detectedObjects
    /\ contours' = r.contours
    /\ returned' = r.returned
    /\ threw' = r.threw
    /\ failedAt' = r.failedAt
    /\ candidates' = r.candidates
    /\ survivors' = r.survivors
    /\ carried' = r.carried
    /\ callSizes' = r.callSizes
    /\ prevFailed' = (failedAt \in {Stages[i] : i \in 1..Len(Stages)})

ProcessFrame ==
    \E canvas \in CanvasesSeen(Detector) :
      \E frame \in FramesSeen(Detector, canvas, Frames) :
        \E fail \in FailsSeen(Detector, canvas, frame) :
          \E r \in {processFrame(Detector, canvas, frame, fail)} :
            /\ ProcessFrameEffect(r)
            /\ UNCHANGED <<isInitialized, buffers, srcSize, leaked, appVars,
                           shapeVars, sceneVars, restVars>>

Cleanup ==
    \E r \in {cleanup(Detector)} :
        /\ isInitialized' = r.isInitialized
        /\ buffers' = r.buffers
        /\ UNCHANGED <<detectedObjects, contours, srcSize, leaked, callVars,
                       appVars, shapeVars, sceneVars, restVars>>

Next == Initialize \/ ProcessFrame \/ Cleanup

Spec == Init /\ [][Next]_vars

----------------------------------------------------------------------------
(* The pure functions on one contour: classifyObject and                   *)
(* calculateConfidence over a grid of descriptors.                         *)

ShapeWidths == {30, 50, 67, 80, 100, 120, 150, 151, 160, 220, 240, 350, 500}
ShapeHeights == {50, 99, 100, 125, 200, 250, 360, 500, 600}
ShapeAreas ==
    {1499, 1500, 4999, 5000, 9999, 10000, 15000, 25000, 50000, 50001, 60000,
     200000, 200001}
ShapeCircularities == {100, 300, 700, 701, 850, 900, 1050}

(* What a closed outline can measure: it lies inside its bounding box, and *)
(* its perimeter is at least twice the box's diagonal, which bounds        *)
(* 4*pi*area/perimeter^2 by pi*area/(w^2 + h^2) (pi taken as 3.142).       *)
IsContourShape(c) ==
    /\ c.area <= c.rect.width * c.rect.height
    /\ c.circularity * (c.rect.width * c.rect.width + c.rect.height * c.rect.height)
          <= 3142 * c.area

Shapes ==
    {c \in {Contour(a, 0, 0, w, h, k) :
                a \in ShapeAreas, w \in ShapeWidths, h \in ShapeHeights,
                k \in ShapeCircularities} : IsContourShape(c)}

ShapeAspectRatio == Frac(shape.rect.width, shape.rect.height)
ShapeExtent == Frac(shape.area, shape.rect.width * shape.rect.height)
ShapeCircularity == Frac(shape.circularity, 1000)

InitShape ==
    /\ InitDetector /\ InitCall /\ InitApp /\ InitSceneIdle /\ InitRestIdle
    /\ shape \in Shapes
    /\ label = "none"
    /\ score = <<0, 1>>
    /\ pc = "new"

(* analyzeContours line 155 *)
Classify ==
    /\ pc = "new"
    /\ label' = classifyObject(shape.rect, ShapeAspectRatio, ShapeExtent,
                               ShapeCircularity, shape.area)
    /\ pc' = "classified"
    /\ UNCHANGED <<shape, score, detVars, callVars, appVars, sceneVars, restVars>>

(* analyzeContours line 165 *)
Score ==
    /\ pc = "classified"
    /\ score' = calculateConfidence(label, ShapeAspectRatio, ShapeCircularity,
                                    ShapeExtent)
    /\ pc' = "scored"
    /\ UNCHANGED <<shape, label, detVars, callVars, appVars, sceneVars, restVars>>

(* calculateConfidence called with any label of the taxonomy *)
ScoreAs ==
    \E l \in objectTypes :
        /\ pc = "new"
        /\ label' = l
        /\ score' = calculateConfidence(l, ShapeAspectRatio, ShapeCircularity,
                                        ShapeExtent)
        /\ pc' = "scored"
        /\ UNCHANGED <<shape, detVars, callVars, appVars, sceneVars, restVars>>

NextShape == Classify \/ Score \/ ScoreAs

SpecShape == InitShape /\ [][NextShape]_vars

----------------------------------------------------------------------------
(* CameraApp: the video loop of startVideoProcessing.                      *)

(* requestAnimationFrame calls of one callback run: line 350 at the end of *)
(* the try block, line 355 in the catch branch.                            *)
scheduledCallbacks_NoneOnError(caught) == IF caught THEN 0 ELSE 1

scheduledCallbacks(caught) == IF caught THEN 1 ELSE 1

(* The part of the camera's feed the application runs are followed on. *)
AppFrames == ShortFrames

(* One run of the frame callback (lines 335-357) with streaming true: the  *)
(* detector's processFrame result, and how many callbacks it schedules.    *)
frameCallback(det, canvas, frame, fail, uiFails) ==
    LET r == processFrame(det, canvas, frame, fail)
        caught == r.threw \/ uiFails
    IN  [frame |-> r,
         uiFailed |-> ~r.threw /\ uiFails,
         scheduled |-> scheduledCallbacks(caught)]

(* The callback's effect on the detector and on the record of the call. *)
CallbackEffect(cb) ==
    /\ ProcessFrameEffect(cb.frame)
    /\ cbScheduled' = cb.scheduled
    /\ cbSawStreaming' = TRUE
    /\ uiFailed' = cb.uiFailed

(* The detector once an initialize call has acted on it. *)
DetectorAfter(i) ==
    [Detector EXCEPT !.isInitialized = i.isInitialized, !.buffers = i.buffers,
                     !.srcSize = i.srcSize, !.leaked = i.leaked]

(* initializeCamera, run once when OpenCV is ready (lines 181-233), the    *)
(* detector being present.  The camera may be refused (getUserMedia        *)
(* rejects); else the canvas takes the video's size and the detector is    *)
(* initialized: on true the loop starts, its first callback runs at once   *)
(* (line 359) and the status reads ready; on false line 220 throws, and    *)
(* the catch of lines 229-232 shows the error.                             *)
InitializeCamera ==
    /\ ~videoSet
    /\ videoSet' = TRUE
    /\ \E cameraOk \in BOOLEAN, video \in VideoSizes,
          failsAt \in AllocFails :
        IF ~cameraOk
        THEN /\ status' = "error"
             /\ UNCHANGED <<detVars, callVars, streaming, rafPending, cbScheduled,
                            cbSawStreaming, uiFailed, canvasSize, appInit>>
        ELSE \E i \in {initialize(Detector, video[1], video[2], failsAt)} :
             /\ canvasSize' = video
             /\ InitializeEffect(i)
             /\ appInit' = (IF i.returned THEN "true" ELSE "false")
             /\ IF i.returned
                THEN /\ streaming' = TRUE
                     /\ status' = "ready"
                     /\ \E frame \in FramesSeen(DetectorAfter(i), video, AppFrames) :
                          \E fail \in FailsSeen(DetectorAfter(i), video, frame),
                             uiFails \in BOOLEAN :
                            \E cb \in {frameCallback(DetectorAfter(i), video, frame,
                                                     fail, uiFails)} :
                                /\ CallbackEffect(cb)
                                /\ rafPending' = rafPending + cb.scheduled
                ELSE /\ status' = "error"
                     /\ UNCHANGED <<detectedObjects, contours, callVars, streaming,
                                    rafPending, cbScheduled, cbSawStreaming, uiFailed>>
    /\ UNCHANGED <<shapeVars, sceneVars, restVars>>

(* The browser runs a queued frame callback. *)
FrameCallback ==
    /\ rafPending > 0
    /\ IF ~streaming
       THEN /\ rafPending' = rafPending - 1
            /\ cbScheduled' = 0
            /\ cbSawStreaming' = FALSE
            /\ UNCHANGED <<detVars, callVars, streaming, uiFailed, videoSet,
                           canvasSize, status, appInit>>
       ELSE \E frame \in FramesSeen(Detector, canvasSize, AppFrames) :
              \E fail \in FailsSeen(Detector, canvasSize, frame),
                 uiFails \in BOOLEAN :
                \E cb \in {frameCallback(Detector, canvasSize, frame, fail, uiFails)} :
                    /\ CallbackEffect(cb)
                    /\ rafPending' = rafPending - 1 + cb.scheduled
                    /\ UNCHANGED <<isInitialized, buffers, srcSize, leaked,
                                   streaming, videoSet, canvasSize, status, appInit>>
    /\ UNCHANGED <<shapeVars, sceneVars, restVars>>

(* handleOrientationChange (lines 649-658): the canvas takes the video's   *)
(* size and initialize is called again; its result is not looked at.       *)
(* With no detector (this.objectDetector null) line 656 throws a           *)
(* TypeError, after the canvas took its size.                              *)
HandleOrientationChange ==
    /\ streaming /\ videoSet
    /\ \E video \in VideoSizes :
         /\ canvasSize' = video
         /\ IF objectDetector = "null"
            THEN /\ orientationThrew' = TRUE
                 /\ UNCHANGED <<isInitialized, buffers, srcSize, leaked, appInit>>
            ELSE \E failsAt \in AllocFails :
                   \E i \in {initialize(Detector, video[1], video[2], failsAt)} :
                      /\ InitializeEffect(i)
                      /\ appInit' = (IF i.returned THEN "true" ELSE "false")
                      /\ orientationThrew' = FALSE
    /\ UNCHANGED <<detectedObjects, contours, callVars, streaming, rafPending,
                   cbScheduled, cbSawStreaming, uiFailed, videoSet, status,
                   shapeVars, sceneVars, pairVars, objectDetector, captureVars,
                   touchVars>>

(* CameraApp.cleanup (lines 690-702), with ObjectDetector.cleanup: when    *)
(* that throws, line 701 is not reached.                                   *)
AppCleanup ==
    /\ \E r \in {cleanup(Detector)} :
         /\ isInitialized' = r.isInitialized
         /\ buffers' = r.buffers
         /\ streaming' = (IF r.threw THEN streaming ELSE FALSE)
    /\ UNCHANGED <<detectedObjects, contours, srcSize, leaked, callVars,
                   rafPending, cbScheduled, cbSawStreaming, uiFailed, videoSet,
                   canvasSize, status, appInit, shapeVars, sceneVars, restVars>>

NextApp == InitializeCamera \/ FrameCallback \/ HandleOrientationChange \/ AppCleanup

SpecApp == Init /\ [][NextApp]_vars

----------------------------------------------------------------------------
(* ObjectDetector: the derived views of the detection set.                 *)

(* The forEach of lines 372-384.  The summary object is kept as the        *)
(* sequence of its entries in insertion order, the order in which          *)
(* Object.keys lists them.                                                 *)
RECURSIVE summaryLoop(_, _, _)
summaryLoop(detections, i, entries) ==
    IF i > Len(detections) THEN entries
    ELSE LET d == detections[i]
             known == \E k \in 1..Len(entries) : entries[k].type = d.type
             started == IF known THEN entries
                        ELSE Append(entries,
                                [type |-> d.type, count |-> 0,
                                 avgConfidence |-> <<0, 1>>,
                                 totalConfidence |-> <<0, 1>>])
             counted == [k \in 1..Len(started) |->
                            IF started[k].type = d.type
                            THEN [started[k] EXCEPT
                                    !.count = @ + 1,
                                    !.totalConfidence = RAdd(@, d.confidence)]
                            ELSE started[k]]
         IN  summaryLoop(detections, i + 1, counted)

(* totalConfidence of lines 370 and 383 *)
RECURSIVE totalLoop(_, _, _)
totalLoop(detections, i, total) ==
    IF i > Len(detections) THEN total
    ELSE totalLoop(detections, i + 1, RAdd(total, detections[i].confidence))

(* The quotient of lines 388 and 394. *)
average_Total(total, count) == total

average(total, count) == RDivInt(total, count)

getDetectionSummary(det) ==
    LET entries == summaryLoop(det.detectedObjects, 1, <<>>)
        n == Len(det.detectedObjects)
    IN  [types |-> [k \in 1..Len(entries) |->
                      [entries[k] EXCEPT
                         !.avgConfidence =
                            average(entries[k].totalConfidence, entries[k].count)]],
         totalObjects |-> n,
         avgConfidence |-> IF n > 0
                           THEN average(totalLoop(det.detectedObjects, 1, <<0, 1>>), n)
                           ELSE <<0, 1>>]

(* A text is kept as the sequence of the pieces it is concatenated from.   *)

(* otherTypes.slice(0, 3) *)
maxListed == 3

listed_All(otherTypes) == otherTypes

listed(otherTypes) == SubSeq(otherTypes, 1, Min2(maxListed, Len(otherTypes)))

(* Line 426: count === 1 ? `a ${type}` : `${count} ${type}s` *)
phrase(type, count) ==
    IF count = 1 THEN <<"a ", type>> ELSE <<ToString(count), " ", type, "s">>

(* Array.prototype.join *)
RECURSIVE join(_, _)
join(texts, separator) ==
    IF texts = <<>> THEN <<>>
    ELSE IF Len(texts) = 1 THEN texts[1]
    ELSE texts[1] \o <<separator>> \o join(Tail(texts), separator)

generateSceneDescription(det) ==
    IF Len(det.detectedObjects) = 0 THEN <<"a general scene">>
    ELSE
    LET s == getDetectionSummary(det)
        types == [k \in 1..Len(s.types) |-> s.types[k].type]
        countOf(t) == s.types[CHOOSE k \in 1..Len(s.types) : s.types[k].type = t].count
        people == IF \E k \in 1..Len(types) : types[k] = HUMAN
                  THEN (IF countOf(HUMAN) = 1
                        THEN <<"a person">>
                        ELSE <<ToString(countOf(HUMAN)), " people">>)
                  ELSE <<>>
        otherTypes == SelectSeq(types, LAMBDA t : t # HUMAN)
        with == IF Len(otherTypes) > 0 /\ people # <<>> THEN <<" with ">> ELSE <<>>
        shown == listed(otherTypes)
        others == IF Len(otherTypes) > 0
                  THEN join([k \in 1..Len(shown) |-> phrase(shown[k], countOf(shown[k]))],
                            ", ")
                  ELSE <<>>
        text == people \o with \o others
    IN  IF text = <<>> THEN <<"various objects">> ELSE text

----------------------------------------------------------------------------
(* The derived views over the detection sets of one processed frame.       *)

MaxScene == 5       \* the longest frame of the scenes

(* Eight outlines apart from each other inside a 1280x720 image: two       *)
(* persons (scored 0.8 and 0.6), a disc, two squares, a bar, a small blob, *)
(* a large blob.                                                           *)
Palette ==
    {Contour(15000, 0, 0, 100, 250, 300),
     Contour(20000, 200, 0, 120, 170, 300),
     Contour(9000, 400, 0, 110, 100, 900),
     Contour(6400, 600, 0, 100, 100, 500),
     Contour(6000, 800, 0, 100, 110, 500),
     Contour(3000, 0, 300, 200, 50, 100),
     Contour(2000, 500, 300, 70, 50, 400),
     Contour(60000, 900, 300, 350, 250, 300)}

SceneFrames == SeqsUpTo(Palette, MaxScene)

SceneSize == CHOOSE size \in VideoSizes : TRUE

(* The detector after initialize and one processFrame call on a frame. *)
InitScene ==
    /\ InitApp /\ InitShapeIdle /\ InitSceneIdle /\ InitRestIdle
    /\ isInitialized = TRUE
    /\ buffers = [b \in BufferSet |-> "live"]
    /\ srcSize = SceneSize
    /\ leaked = FALSE
    /\ contours \in SceneFrames
    /\ \E r \in {processFrame(
                    [isInitialized |-> TRUE, detectedObjects |-> <<>>,
                     contours |-> <<>>, buffers |-> buffers, srcSize |-> srcSize,
                     leaked |-> FALSE],
                    SceneSize, contours, NoFail)} :
        /\ detectedObjects = r.detectedObjects
        /\ returned = r.returned
        /\ threw = r.threw
        /\ failedAt = r.failedAt
        /\ candidates = r.candidates
        /\ survivors = r.survivors
        /\ carried = r.carried
        /\ callSizes = r.callSizes
        /\ prevFailed = FALSE

GetDetectionSummary ==
    /\ summary' = <<getDetectionSummary(Detector)>>
    /\ UNCHANGED <<detVars, callVars, appVars, shapeVars, description, restVars>>

GenerateSceneDescription ==
    /\ description' = generateSceneDescription(Detector)
    /\ UNCHANGED <<detVars, callVars, appVars, shapeVars, summary, restVars>>

NextScene == GetDetectionSummary \/ GenerateSceneDescription

SpecScene == InitScene /\ [][NextScene]_vars

----------------------------------------------------------------------------
(* calculateOverlap and removeOverlappingDetections on two rectangles.     *)

MaxOffset == 2      \* rectangles start at 0, 10, ..., 10 * MaxOffset on each axis

Box(x, y, w, h) == [x |-> x, y |-> y, width |-> w, height |-> h]

(* Every rectangle of three widths and heights on the grid (pairs of them  *)
(* are disjoint, touch along an edge or at a corner, cross, nest or        *)
(* coincide), and the two boxes 10 px apart on both axes.                  *)
PairSides == {10, 20, 30}
PairRects ==
    {Box(10 * i, 10 * j, w, h) :
        i \in 0..MaxOffset, j \in 0..MaxOffset, w \in PairSides, h \in PairSides}
    \cup {Box(100, 100, 50, 50), Box(110, 110, 50, 50)}

InitOverlap ==
    /\ InitDetector /\ InitCall /\ InitApp /\ InitShapeIdle /\ InitSceneIdle
    /\ InitReviewIdle
    /\ pairRect1 \in PairRects
    /\ pairRect2 \in PairRects
    /\ pairOverlap = <<0, 1>>
    /\ retained = <<>>
    /\ pcPair = "new"

(* removeOverlappingDetections line 298 *)
CalculateOverlap ==
    /\ pcPair = "new"
    /\ pairOverlap' = calculateOverlap(pairRect1, pairRect2)
    /\ pcPair' = "measured"
    /\ UNCHANGED <<pairRect1, pairRect2, retained, detVars, callVars, appVars,
                   shapeVars, sceneVars, reviewVars>>

(* postProcessDetections line 275, on two detections with these boxes, the *)
(* first discovered first; of a detection the suppression reads rect only. *)
RemoveOverlappingDetections ==
    /\ pcPair = "measured"
    /\ retained' = removeOverlappingDetections(
                        <<[idx |-> 1, rect |-> pairRect1],
                          [idx |-> 2, rect |-> pairRect2]>>)
    /\ pcPair' = "suppressed"
    /\ UNCHANGED <<pairRect1, pairRect2, pairOverlap, detVars, callVars, appVars,
                   shapeVars, sceneVars, reviewVars>>

NextOverlap == CalculateOverlap \/ RemoveOverlappingDetections

SpecOverlap == InitOverlap /\ [][NextOverlap]_vars

----------------------------------------------------------------------------
(* CameraApp: capture, review and swipe.  The application is followed from *)
(* the end of its start-up: through initialize and initializeCamera (a     *)
(* detector exists) or through initializeBasic (none does), the camera     *)
(* granted (streaming) or refused.  imageEnhancer.enhanceImage belongs to  *)
(* another file: its call is an outstanding promise that settles later     *)
(* with a result that reports success or failure, or with a rejection.     *)

MaxCaptures == 2    \* capturePhoto calls followed
MaxTimers == 2      \* backToCamera timers of saveImage outstanding at once

innerWidth == 400   \* window.innerWidth
TouchXs == {0, 100, 300}    \* clientX of a touch

ReviewSize == CHOOSE size \in VideoSizes : TRUE

(* The detector of a started application: initialized for the video's     *)
(* size, the first frame callback (line 359) having met an empty frame.    *)
StartedDetector ==
    [isInitialized |-> TRUE, detectedObjects |-> <<>>, contours |-> <<>>,
     buffers |-> [b \in BufferSet |-> "live"], srcSize |-> ReviewSize,
     leaked |-> FALSE]

InitReview ==
    /\ InitShapeIdle /\ InitSceneIdle /\ InitPairIdle /\ InitCapture /\ InitTouch
    /\ orientationThrew = FALSE
    /\ objectDetector \in {"null", "present"}
    /\ streaming \in BOOLEAN
    /\ videoSet = TRUE
    /\ uiFailed = FALSE
    /\ rafPending = (IF streaming THEN 1 ELSE 0)
    /\ cbScheduled = rafPending
    /\ cbSawStreaming = streaming
    /\ canvasSize = (IF streaming THEN ReviewSize ELSE <<300, 150>>)
    /\ status = (IF streaming THEN "ready" ELSE "error")
    /\ appInit = (IF streaming /\ objectDetector = "present" THEN "true" ELSE "no call")
    /\ IF streaming /\ objectDetector = "present"
       THEN /\ isInitialized = StartedDetector.isInitialized
            /\ buffers = StartedDetector.buffers
            /\ srcSize = StartedDetector.srcSize
            /\ leaked = StartedDetector.leaked
            /\ \E r \in {processFrame(StartedDetector, ReviewSize, <<>>, NoFail)} :
                 /\ detectedObjects = r.detectedObjects
                 /\ contours = r.contours
                 /\ returned = r.returned
                 /\ threw = r.threw
                 /\ failedAt = r.failedAt
                 /\ candidates = r.candidates
                 /\ survivors = r.survivors
                 /\ carried = r.carried
                 /\ callSizes = r.callSizes
                 /\ prevFailed = FALSE
       ELSE InitDetector /\ InitCall

(* handleEnhancementError (lines 481-496). *)
HandleEnhancementError ==
    /\ overlayActive' = FALSE
    /\ status' = "enhance failed"

(* capturePhoto (lines 396-448) up to its await, called by the capture     *)
(* button's click listener (line 112; a disabled or hidden button sends no *)
(* click).  Line 413 reads this.objectDetector.detectedObjects: with no    *)
(* detector it throws a TypeError, which the catch of lines 441-443 hands  *)
(* to handleEnhancementError, and the finally block re-enables the button. *)
(* Otherwise the review view opens, enhanceImage is called, and the button *)
(* stays disabled until the call settles.                                  *)
CapturePhoto ==
    /\ ~captureBtnDisabled /\ ~reviewActive
    /\ shot < MaxCaptures
    /\ IF ~streaming
       THEN /\ lastCapture' = "ignored"
            /\ UNCHANGED <<currentOriginalImage, reviewActive, overlayActive,
                           captureBtnDisabled, captureCount, shot, pendingShot,
                           backRan, status>>
       ELSE /\ shot' = shot + 1
            /\ backRan' = FALSE
            /\ currentOriginalImage' = shot + 1
            /\ IF objectDetector = "null"
               THEN /\ HandleEnhancementError
                    /\ captureBtnDisabled' = FALSE
                    /\ lastCapture' = "error path"
                    /\ UNCHANGED <<reviewActive, captureCount, pendingShot>>
               ELSE /\ captureCount' = captureCount + 1
                    /\ reviewActive' = TRUE
                    /\ overlayActive' = TRUE
                    /\ pendingShot' = shot + 1
                    /\ captureBtnDisabled' = TRUE
                    /\ lastCapture' = "submitted"
                    /\ UNCHANGED status
    /\ UNCHANGED <<detVars, callVars, streaming, rafPending, cbScheduled,
                   cbSawStreaming, uiFailed, videoSet, canvasSize, appInit,
                   shapeVars, sceneVars, pairVars, objectDetector,
                   currentEnhancedImage, currentPrompt, backTimers, touchVars,
                   orientationThrew>>

(* capturePhoto after its await (lines 427-447): the outstanding           *)
(* enhanceImage call settles.                                              *)
EnhanceSettles ==
    /\ pendingShot # 0
    /\ \E outcome \in {"success", "failure", "rejected"} :
         IF outcome = "success"
         THEN /\ currentEnhancedImage' = pendingShot
              /\ currentPrompt' = pendingShot
              /\ overlayActive' = FALSE
              /\ status' = "enhanced"
         ELSE /\ HandleEnhancementError
              /\ UNCHANGED <<currentEnhancedImage, currentPrompt>>
    /\ pendingShot' = 0
    /\ captureBtnDisabled' = FALSE
    /\ UNCHANGED <<detVars, callVars, streaming, rafPending, cbScheduled,
                   cbSawStreaming, uiFailed, videoSet, canvasSize, appInit,
                   shapeVars, sceneVars, pairVars, objectDetector,
                   currentOriginalImage, reviewActive, captureCount, shot,
                   lastCapture, backTimers, backRan, touchVars, orientationThrew>>

(* backToCamera (lines 526-540). *)
backToCamera ==
    /\ reviewActive' = FALSE
    /\ overlayActive' = FALSE
    /\ currentOriginalImage' = 0
    /\ currentEnhancedImage' = 0
    /\ currentPrompt' = 0
    /\ status' = "next"
    /\ backRan' = TRUE

(* window.backToCamera (lines 718-722), the review view's way back. *)
BackToCamera ==
    /\ reviewActive
    /\ backToCamera
    /\ UNCHANGED <<detVars, callVars, streaming, rafPending, cbScheduled,
                   cbSawStreaming, uiFailed, videoSet, canvasSize, appInit,
                   shapeVars, sceneVars, pairVars, objectDetector,
                   captureBtnDisabled, captureCount, shot, pendingShot,
                   lastCapture, backTimers, touchVars, orientationThrew>>

(* The timer saveImage set (lines 513-515) fires. *)
BackTimerFires ==
    /\ backTimers > 0
    /\ backTimers' = backTimers - 1
    /\ backToCamera
    /\ UNCHANGED <<detVars, callVars, streaming, rafPending, cbScheduled,
                   cbSawStreaming, uiFailed, videoSet, canvasSize, appInit,
                   shapeVars, sceneVars, pairVars, objectDetector,
                   captureBtnDisabled, captureCount, shot, pendingShot,
                   lastCapture, touchVars, orientationThrew>>

(* touchstart on the review container (lines 140-143). *)
TouchStart ==
    /\ reviewActive
    /\ \E clientX \in TouchXs :
         touch' = [touch EXCEPT !.startX = clientX, !.isDragging = TRUE]
    /\ moved' = FALSE
    /\ UNCHANGED <<detVars, callVars, appVars, shapeVars, sceneVars, pairVars,
                   objectDetector, captureVars, lastSwipe, orientationThrew>>

(* touchmove (lines 145-154). *)
TouchMove ==
    /\ touch.isDragging
    /\ \E clientX \in TouchXs :
         touch' = [touch EXCEPT !.currentX = clientX]
    /\ moved' = TRUE
    /\ UNCHANGED <<detVars, callVars, appVars, shapeVars, sceneVars, pairVars,
                   objectDetector, captureVars, lastSwipe, orientationThrew>>

Abs(n) == IF n < 0 THEN -n ELSE n

(* Lines 160-170: which image the touchend saves.  The threshold is        *)
(* window.innerWidth * 0.3 (120 for a width of 400; no distance of TouchXs *)
(* is within rounding of it).                                              *)
swipeSaves(t) ==
    LET deltaX == t.currentX - t.startX
    IN  IF 10 * Abs(deltaX) > 3 * innerWidth
        THEN (IF deltaX > 0 THEN "original" ELSE "enhanced")
        ELSE "none"

(* touchend (lines 156-175), with saveImage (lines 501-521) when the swipe *)
(* is long enough: the download, the status, and the timer that calls      *)
(* backToCamera a second later.                                            *)
TouchEnd ==
    /\ touch.isDragging
    /\ touch' = [touch EXCEPT !.isDragging = FALSE]
    /\ \E saved \in {swipeSaves(touch)} :
         /\ lastSwipe' = [saved |-> saved,
                          deltaX |-> touch.currentX - touch.startX,
                          moved |-> moved]
         /\ IF saved = "none"
            THEN UNCHANGED <<backTimers, status>>
            ELSE /\ backTimers < MaxTimers
                 /\ backTimers' = backTimers + 1
                 /\ status' = "saved"
    /\ UNCHANGED <<detVars, callVars, streaming, rafPending, cbScheduled,
                   cbSawStreaming, uiFailed, videoSet, canvasSize, appInit,
                   shapeVars, sceneVars, pairVars, objectDetector,
                   currentOriginalImage, currentEnhancedImage, currentPrompt,
                   reviewActive, overlayActive, captureBtnDisabled, captureCount,
                   shot, pendingShot, lastCapture, backRan, moved,
                   orientationThrew>>

NextReview ==
    \/ CapturePhoto
    \/ EnhanceSettles
    \/ BackToCamera
    \/ BackTimerFires
    \/ TouchStart
    \/ TouchMove
    \/ TouchEnd
    \/ HandleOrientationChange

SpecReview == InitReview /\ [][NextReview]_vars

----------------------------------------------------------------------------
(* Properties.  Auxiliary notions, stated on integers.                     *)

(* Intersection and union areas of two rectangles. *)
InterArea(r1, r2) ==
    LET w == Min2(r1.x + r1.width, r2.x + r2.width) - Max2(r1.x, r2.x)
        h == Min2(r1.y + r1.height, r2.y + r2.height) - Max2(r1.y, r2.y)
    IN  IF w > 0 /\ h > 0 THEN w * h ELSE 0

UnionArea(r1, r2) == r1.width * r1.height + r2.width * r2.height - InterArea(r1, r2)

IoUAboveHalf(r1, r2) == 2 * InterArea(r1, r2) > UnionArea(r1, r2)
IoUExactlyHalf(r1, r2) == 2 * InterArea(r1, r2) = UnionArea(r1, r2)

Elems(q) == {q[i] : i \in 1..Len(q)}
Idxs(q) == {q[i].idx : i \in 1..Len(q)}

StageNames == {Stages[i] : i \in 1..Len(Stages)}

(* The last call ran the contour loop to its end / ran the suppression.    *)
LoopCompleted == failedAt \in {"none", "postProcessDetections", "drawDetections"}
Suppressed == failedAt \in {"none", "drawDetections"}

SortedDescending(q) ==
    \A i \in 1..(Len(q) - 1) :
        q[i].confidence[1] * q[i + 1].confidence[2]
            >= q[i + 1].confidence[1] * q[i].confidence[2]

NoOverlappingPair(q) ==
    \A i, j \in 1..Len(q) : i < j => ~IoUAboveHalf(q[i].rect, q[j].rect)

(* C1: calculateConfidence returns a value in [0.1, 0.9] for every label   *)
(* and every descriptor combination.                                       *)
C1_ConfidenceClamped ==
    pc = "scored" => /\ 10 * score[1] >= score[2]
                     /\ 10 * score[1] <= 9 * score[2]

(* C1 witness: a square of aspect ratio 1 (raw score 1.0) scored 0.9.      *)
C1_Witness ==
    /\ pc = "scored"
    /\ label = SQUARE
    /\ shape.rect.width = shape.rect.height
    /\ score = <<9, 10>>

(* The rules of the classifier, in their priority order. *)
PersonRule(c) ==
    /\ 10 * c.rect.width >= 3 * c.rect.height
    /\ 10 * c.rect.width <= 8 * c.rect.height
    /\ c.area >= 10000 /\ c.area <= 200000
    /\ c.rect.height >= 100

RuleTable(c) ==
    << <<PersonRule(c), "person">>,
       <<c.circularity > 700, "circular object">>,
       <<10 * c.rect.width >= 8 * c.rect.height
            /\ 10 * c.rect.width <= 12 * c.rect.height, "square object">>,
       <<10 * c.rect.width > 15 * c.rect.height, "horizontal object">>,
       <<100 * c.rect.width < 67 * c.rect.height, "vertical object">>,
       <<c.area > 50000, "large object">>,
       <<c.area < 5000, "small object">>,
       <<TRUE, "rectangular object">> >>

FirstMatch(c) ==
    LET t == RuleTable(c)
        n == CHOOSE i \in 1..Len(t) : t[i][1] /\ \A j \in 1..(i - 1) : ~t[j][1]
    IN  t[n][2]

(* C2: classifyObject returns the label of the first matching rule in the  *)
(* order person, circular, square, horizontal, vertical, large, small,     *)
(* rectangular; a shape that is person-like and has circularity > 0.7 is   *)
(* labelled person.                                                        *)
C2_FirstMatchWins ==
    pc = "classified" => label = FirstMatch(shape)

(* C2 witness: a person-like shape with circularity > 0.7, labelled person. *)
C2_Witness ==
    /\ pc = "classified"
    /\ PersonRule(shape)
    /\ shape.circularity > 700
    /\ label = "person"

(* C3: analyzeContours emits no candidate for a contour of area below 1500 *)
(* and exactly one for every contour of area 1500 or more.                 *)
C3_AreaThreshold ==
    /\ \A j \in 1..Len(candidates) : candidates[j].area >= 1500
    /\ LoopCompleted =>
         \A i \in 1..Len(contours) :
            LET emitted == {j \in 1..Len(candidates) : candidates[j].idx = i}
            IN  /\ Cardinality(emitted) = (IF contours[i].area >= 1500 THEN 1 ELSE 0)
                /\ \A j \in emitted : /\ candidates[j].area = contours[i].area
                                      /\ candidates[j].rect = contours[i].rect

(* C3 witness: a frame holding a contour of area 1499 (dropped) and one of *)
(* area 1500 (emitted).                                                    *)
C3_Witness ==
    /\ LoopCompleted
    /\ \E i \in 1..Len(contours) :
         contours[i].area = 1499 /\ i \notin Idxs(candidates)
    /\ \E i \in 1..Len(contours) :
         contours[i].area = 1500 /\ i \in Idxs(candidates)

(* The survivors discovered before candidate c. *)
AcceptedBefore(c) == {a \in Elems(survivors) : a.idx < c.idx}

(* C4: the suppression threshold is strict.  A candidate is discarded iff  *)
(* its IoU with a detection accepted before it is greater than 0.5; an IoU *)
(* of exactly 0.5 does not discard it.                                     *)
C4_StrictThreshold ==
    Suppressed =>
      \A j \in 1..Len(candidates) :
         LET c == candidates[j]
         IN  (c \in Elems(survivors))
               <=> (\A a \in AcceptedBefore(c) : ~IoUAboveHalf(a.rect, c.rect))

(* C4 witness: a candidate whose IoU with an accepted earlier detection is *)
(* exactly 0.5 was kept.                                                   *)
C4_Witness ==
    /\ Suppressed
    /\ \E c \in Elems(survivors) :
         \E a \in AcceptedBefore(c) : IoUExactlyHalf(a.rect, c.rect)

(* C5: suppression follows discovery order and never replaces.  Of two     *)
(* candidates with IoU > 0.5 whose earlier one was accepted when its turn  *)
(* came (nothing accepted before it overlapped it), the earlier survives   *)
(* and the later is discarded whatever their confidences; the first        *)
(* candidate is always accepted; survivors keep discovery order.           *)
C5_FirstDiscoveredWins ==
    Suppressed =>
      /\ \A i, j \in 1..Len(candidates) :
            (/\ i < j
             /\ IoUAboveHalf(candidates[i].rect, candidates[j].rect)
             /\ \A a \in AcceptedBefore(candidates[i]) :
                    ~IoUAboveHalf(a.rect, candidates[i].rect))
            => /\ candidates[i] \in Elems(survivors)
               /\ candidates[j] \notin Elems(survivors)
      /\ candidates # <<>> => survivors # <<>> /\ survivors[1] = candidates[1]
      /\ \A i \in 1..(Len(survivors) - 1) : survivors[i].idx < survivors[i + 1].idx

(* C5 witness: the later, discarded candidate had the higher confidence.   *)
C5_Witness ==
    /\ Suppressed
    /\ \E i, j \in 1..Len(candidates) :
         /\ i < j
         /\ IoUAboveHalf(candidates[i].rect, candidates[j].rect)
         /\ candidates[i] \in Elems(survivors)
         /\ candidates[j] \notin Elems(survivors)
         /\ RGt(candidates[j].confidence, candidates[i].confidence)

(* C6: every sequence processFrame returns has at most 10 detections and   *)
(* is ordered by non-increasing confidence.                                *)
C6_AtMostTenSorted ==
    /\ Len(returned) <= 10
    /\ SortedDescending(returned)

(* C6 witness: more than 10 survivors, 10 returned, not all equally        *)
(* confident.                                                              *)
C6_Witness ==
    /\ failedAt = "none"
    /\ Len(survivors) > 10
    /\ Len(returned) = 10
    /\ RGt(returned[1].confidence, returned[10].confidence)

(* C7: the ranked list holds only suppression survivors, each at most      *)
(* once; all of them when there are 10 or fewer; and when there are more,  *)
(* no omitted survivor is strictly more confident than an included one.    *)
C7_RankingOverSurvivors ==
    Suppressed =>
      /\ Elems(detectedObjects) \subseteq Elems(survivors)
      /\ Cardinality(Idxs(detectedObjects)) = Len(detectedObjects)
      /\ Len(survivors) <= 10 => Len(detectedObjects) = Len(survivors)
      /\ Len(survivors) > 10 =>
           /\ Len(detectedObjects) = 10
           /\ \A o \in Elems(survivors) \ Elems(detectedObjects) :
                \A d \in Elems(detectedObjects) : ~RGt(o.confidence, d.confidence)

(* C7 witness: a survivor was omitted, and it was discovered before an     *)
(* included one (ranking, not discovery order, decided).                   *)
C7_Witness ==
    /\ Suppressed
    /\ Len(survivors) > 10
    /\ \E o \in Elems(survivors) \ Elems(detectedObjects) :
         \E d \in Elems(detectedObjects) :
            o.idx < d.idx /\ RGt(d.confidence, o.confidence)

(* C8: processFrame never lets an exception out; when a stage fails it     *)
(* returns the empty sequence.                                             *)
C8_NeverThrows ==
    /\ ~threw
    /\ failedAt \in StageNames => returned = <<>>

(* C8 witness: drawing failed after a non-empty result was computed, and   *)
(* the call returned the empty sequence.                                   *)
C8_Witness ==
    /\ failedAt = "drawDetections"
    /\ detectedObjects # <<>>
    /\ returned = <<>>
    /\ ~threw

(* C9: after any processFrame call the detector's detection set is empty   *)
(* or a complete result: no pair with IoU > 0.5, sorted by descending      *)
(* confidence, at most 10 long.                                            *)
C9_EmptyOrComplete ==
    \/ detectedObjects = <<>>
    \/ /\ NoOverlappingPair(detectedObjects)
       /\ SortedDescending(detectedObjects)
       /\ Len(detectedObjects) <= 10

(* C10: while streaming is true exactly one frame callback is queued, and  *)
(* every callback that found streaming true scheduled exactly one, whether *)
(* processFrame or the UI update failed or not; a processFrame call that   *)
(* follows a failed one returns what the pipeline yields for its frame.    *)
C10_FeedNeverStalls ==
    /\ streaming => rafPending = 1
    /\ cbSawStreaming => cbScheduled = 1
    /\ (prevFailed /\ failedAt = "none") =>
         returned = rankDetections(
                       removeOverlappingDetections(
                          analyzeLoop(<<>>, contours, 1, Len(contours))))

(* C10 witness: the call before failed, this one returned detections, the  *)
(* UI update threw, and the next callback is queued.                       *)
C10_Witness ==
    /\ streaming
    /\ prevFailed
    /\ failedAt = "none"
    /\ returned # <<>>
    /\ uiFailed
    /\ cbScheduled = 1
    /\ rafPending = 1

(* C11: cleanup is idempotent and safe.  On a detector never initialized   *)
(* it releases nothing and does not fail; repeated, it releases each       *)
(* working buffer once: delete() is never called on a buffer already       *)
(* deleted (the call that does so is also the one that throws).            *)
C11_CleanupIdempotent ==
    \A b \in BufferSet : buffers[b] # "redeleted"

(* C12: at most one set of working buffers is live at a time, and every    *)
(* buffer initialize ever allocated is held by a field or has been         *)
(* released; the held ones are released by cleanup.                        *)
C12_OneLiveSet ==
    /\ ~leaked
    /\ (~isInitialized /\ \A b \in BufferSet : buffers[b] # "live") => ~leaked

(* C13: a failure of initialize is surfaced and not swallowed.  Whenever   *)
(* the application's last initialize call returned false, the application  *)
(* reacted: it shows the error and does not stream.                        *)
C13_InitFailureSurfaced ==
    appInit = "false" => status = "error" /\ ~streaming

(* C14: a processFrame call on an initialized detector whose canvas is     *)
(* empty or differs in width or height from the size given to initialize   *)
(* fails and returns the empty sequence.                                   *)
C14_MismatchRejected ==
    (failedAt \notin {"no call", "not initialized"} /\ callSizes[1] # callSizes[2])
        => failedAt \in StageNames /\ returned = <<>>

(* C17: after every processFrame call the detection set the detector holds *)
(* equals the sequence that call returned, also when the call failed or    *)
(* the detector was not initialized.                                       *)
C17_HeldEqualsReturned ==
    failedAt # "no call" => detectedObjects = returned

(* C18: no detection outlives one processing cycle.  After a processFrame  *)
(* call the detection set holds no detection that was in it before the     *)
(* call.                                                                   *)
C18_NothingCarriedOver ==
    carried = 0

(* How many detections of q carry label t, and where t first appears. *)
TypeCount(q, t) == Cardinality({i \in 1..Len(q) : q[i].type = t})

FirstAt(q, t) ==
    CHOOSE i \in 1..Len(q) : q[i].type = t /\ \A j \in 1..(i - 1) : q[j].type # t

OtherLabels(q) == {q[i].type : i \in 1..Len(q)} \ {"person"}

(* The k-th label other than person, by first appearance. *)
OtherLabel(q, k) ==
    CHOOSE t \in OtherLabels(q) :
        Cardinality({u \in OtherLabels(q) : FirstAt(q, u) < FirstAt(q, t)}) = k - 1

Item(q, t) ==
    IF TypeCount(q, t) = 1 THEN <<"a ", t>>
    ELSE <<ToString(TypeCount(q, t)), " ", t, "s">>

RECURSIVE Listing(_, _, _)
Listing(q, k, n) ==
    IF k > n THEN <<>>
    ELSE Item(q, OtherLabel(q, k))
         \o (IF k < n THEN <<", ">> ELSE <<>>)
         \o Listing(q, k + 1, n)

Lead(q) ==
    IF TypeCount(q, "person") = 0 THEN <<>>
    ELSE IF TypeCount(q, "person") = 1 THEN <<"a person">>
    ELSE <<ToString(TypeCount(q, "person")), " people">>

ListedCount(q) ==
    IF Cardinality(OtherLabels(q)) > 3 THEN 3 ELSE Cardinality(OtherLabels(q))

(* C15: generateSceneDescription returns "a general scene" for the empty   *)
(* set; otherwise it leads with "a person" / "{n} people" when there are   *)
(* person detections, then lists at most three distinct other labels as    *)
(* "a {label}" / "{count} {label}s", comma-joined (joined to the lead by   *)
(* " with "); "various objects" is returned only when detections exist and *)
(* that listing is empty.                                                  *)
C15_SceneDescription ==
    description # <<>> =>
        LET q == detectedObjects
            items == Listing(q, 1, ListedCount(q))
        IN  /\ q = <<>> => description = <<"a general scene">>
            /\ q # <<>> =>
                 description =
                    Lead(q)
                    \o (IF Lead(q) # <<>> /\ items # <<>> THEN <<" with ">> ELSE <<>>)
                    \o items
            /\ description = <<"various objects">> => q # <<>> /\ items = <<>>

(* C15 witness: a person and more than three other labels; three labels    *)
(* are listed after the lead.                                              *)
C15_Witness ==
    /\ description # <<>>
    /\ TypeCount(detectedObjects, "person") = 1
    /\ Cardinality(OtherLabels(detectedObjects)) > 3
    /\ description[1] = "a person"
    /\ Len(SelectSeq(description, LAMBDA piece : piece = ", ")) = 2

(* The sum of the confidences of the detections of q at the indices I. *)
RECURSIVE ConfSum(_, _)
ConfSum(q, I) ==
    IF I = {} THEN <<0, 1>>
    ELSE LET i == CHOOSE i \in I : TRUE
         IN  RAdd(q[i].confidence, ConfSum(q, I \ {i}))

(* mean = total / n, n > 0 *)
IsMean(mean, total, n) == mean[1] * (total[2] * n) = total[1] * mean[2]

RECURSIVE CountSum(_, _)
CountSum(entries, k) ==
    IF k > Len(entries) THEN 0 ELSE entries[k].count + CountSum(entries, k + 1)

(* C16: getDetectionSummary groups the detection set by label.  Every      *)
(* label present has one entry, with count >= 1 and avgConfidence the sum  *)
(* of its detections' confidences divided by its count; the counts sum to  *)
(* totalObjects, the size of the set; the overall avgConfidence is the     *)
(* mean over all detections, 0 for the empty set; the set is left as       *)
(* processFrame returned it.                                               *)
C16_SummaryGroupsByLabel ==
    summary # <<>> =>
        LET s == summary[1]
            q == detectedObjects
            all == 1..Len(q)
        IN  /\ {s.types[k].type : k \in 1..Len(s.types)} = {q[i].type : i \in all}
            /\ \A k, m \in 1..Len(s.types) :
                    s.types[k].type = s.types[m].type => k = m
            /\ \A k \in 1..Len(s.types) :
                    LET of == {i \in all : q[i].type = s.types[k].type}
                    IN  /\ s.types[k].count >= 1
                        /\ s.types[k].count = Cardinality(of)
                        /\ IsMean(s.types[k].avgConfidence, ConfSum(q, of),
                                  Cardinality(of))
            /\ CountSum(s.types, 1) = s.totalObjects
            /\ s.totalObjects = Len(q)
            /\ IF q = <<>> THEN s.avgConfidence = <<0, 1>>
               ELSE IsMean(s.avgConfidence, ConfSum(q, all), Len(q))
            /\ detectedObjects = returned

(* C16 witness: two persons scored 0.8 and 0.6 average 0.7, beside other   *)
(* labels.                                                                 *)
C16_Witness ==
    /\ summary # <<>>
    /\ Len(summary[1].types) >= 3
    /\ \E k \in 1..Len(summary[1].types) :
         /\ summary[1].types[k].type = "person"
         /\ summary[1].types[k].count = 2
         /\ summary[1].types[k].avgConfidence = <<7, 10>>

(* The score of a label before clamping, and the clamp, on the contour's   *)
(* integers.                                                               *)
RawScore(l, c) ==
    LET w == c.rect.width
        h == c.rect.height
    IN  IF l = "person"
        THEN (IF 10 * w >= 4 * h /\ 10 * w <= 6 * h THEN <<4, 5>> ELSE <<3, 5>>)
        ELSE IF l = "circular object"
        THEN (IF c.circularity > 900 THEN <<9, 10>> ELSE Frac(c.circularity, 1000))
        ELSE IF l = "square object"
        THEN Frac(h - (IF w > h THEN w - h ELSE h - w), h)
        ELSE (IF 10 * c.area > 7 * w * h THEN <<7, 10>> ELSE Frac(c.area, w * h))

Clamped(x) ==
    IF 10 * x[1] < x[2] THEN <<1, 10>>
    ELSE IF 10 * x[1] > 9 * x[2] THEN <<9, 10>>
    ELSE x

StandingPerson(c) ==
    c.area = 15000 /\ c.rect.width = 100 /\ c.rect.height = 250

(* C19: the score before clamping is 0.8 for a person of aspect ratio in   *)
(* [0.4, 0.6] and 0.6 for any other person, min(0.9, circularity) for      *)
(* circular, 1 - |aspectRatio - 1| for square, min(0.7, extent) for every  *)
(* other label; a contour of area 15000 with bounding box 100x250 is       *)
(* classified person and scored 0.8.                                       *)
C19_RawScoreByLabel ==
    /\ pc = "scored" => score = Clamped(RawScore(label, shape))
    /\ StandingPerson(shape) =>
         /\ pc = "classified" => label = "person"
         /\ (pc = "scored" /\ label = "person") => score = <<4, 5>>

(* C19 witness: the contour of the scenario, scored as the person it was   *)
(* classified as.                                                          *)
C19_Witness ==
    /\ StandingPerson(shape)
    /\ pc = "scored"
    /\ label = "person"
    /\ score = <<4, 5>>

Disc60000(c) == c.area = 60000 /\ c.circularity = 850

(* C20 as stated: a contour with area 60000 and circularity 0.85 is        *)
(* classified circular with confidence 0.85 whatever its bounding box.     *)
C20_CircularAnyBox ==
    Disc60000(shape) =>
        /\ pc = "classified" => label = "circular object"
        /\ (pc = "scored" /\ label = "circular object") => score = <<17, 20>>

(* C20 amended: a contour with area 60000 and circularity 0.85 is          *)
(* classified circular with confidence 0.85 unless its bounding box has    *)
(* the proportions of a person (aspect ratio in [0.3, 0.8], height at      *)
(* least 100); then it is classified person, with confidence 0.8 or 0.6.   *)
C20_CircularUnlessPersonBox ==
    Disc60000(shape) =>
        /\ pc = "classified" =>
             label = (IF PersonRule(shape) THEN "person" ELSE "circular object")
        /\ (pc = "scored" /\ label = "circular object") => score = <<17, 20>>
        /\ (pc = "scored" /\ label = "person") => score \in {<<4, 5>>, <<3, 5>>}

(* C20 witness: the contour in a box that is not a person's, classified    *)
(* circular; the same contour in an upright box is the case the amendment  *)
(* sets apart.                                                             *)
C20_Witness ==
    /\ Disc60000(shape)
    /\ ~PersonRule(shape)
    /\ pc = "classified"
    /\ label = "circular object"

(* The two rectangles share boundary points only (an edge or a corner). *)
Touching(r1, r2) ==
    LET w == Min2(r1.x + r1.width, r2.x + r2.width) - Max2(r1.x, r2.x)
        h == Min2(r1.y + r1.height, r2.y + r2.height) - Max2(r1.y, r2.y)
    IN  w >= 0 /\ h >= 0 /\ (w = 0 \/ h = 0)

ScenarioPair ==
    pairRect1 = Box(100, 100, 50, 50) /\ pairRect2 = Box(110, 110, 50, 50)

(* C21: for two rectangles of positive width and height calculateOverlap   *)
(* returns intersection area / (area1 + area2 - intersection area), and 0  *)
(* when they do not overlap, also when they share only an edge or a        *)
(* corner; for the boxes (100,100,50,50) and (110,110,50,50) it returns    *)
(* 1600/3400, which is below 0.5, and the suppression retains both.        *)
C21_OverlapIsIoU ==
    /\ pcPair \in {"measured", "suppressed"} =>
         /\ pairOverlap[2] > 0
         /\ pairOverlap[1] * UnionArea(pairRect1, pairRect2)
              = pairOverlap[2] * InterArea(pairRect1, pairRect2)
         /\ (InterArea(pairRect1, pairRect2) = 0 \/ Touching(pairRect1, pairRect2))
              => pairOverlap[1] = 0
    /\ (pcPair \in {"measured", "suppressed"} /\ ScenarioPair) =>
         /\ 3400 * pairOverlap[1] = 1600 * pairOverlap[2]
         /\ 2 * pairOverlap[1] < pairOverlap[2]
    /\ (pcPair = "suppressed" /\ ScenarioPair) =>
         /\ Len(retained) = 2
         /\ retained[1].rect = pairRect1 /\ retained[2].rect = pairRect2

(* C21 witness: the two boxes of the scenario went through both steps. *)
C21_Witness ==
    /\ pcPair = "suppressed"
    /\ ScenarioPair
    /\ Len(retained) = 2

(* C22: in every sequence a successful processFrame call returns, no two  *)
(* detections have boxes with IoU > 0.5, whatever the discovery order and  *)
(* the number of candidates; sorting and truncation keep it so.            *)
C22_ReturnedPairwiseApart ==
    /\ Suppressed => NoOverlappingPair(survivors)
    /\ failedAt = "none" =>
         /\ NoOverlappingPair(returned)
         /\ NoOverlappingPair(detectedObjects)

(* C22 witness: a successful call on a frame where the suppression         *)
(* discarded a candidate and more than 10 survived, so that the returned   *)
(* sequence was sorted and truncated.                                      *)
C22_Witness ==
    /\ failedAt = "none"
    /\ Len(candidates) > Len(survivors)
    /\ Len(survivors) > 10
    /\ Len(returned) = 10
    /\ \E i \in 1..9 : returned[i].idx > returned[i + 1].idx

(* C23: after an initialize call that returned false the detector is not  *)
(* in the initialized state, so that the next processFrame call returns    *)
(* the empty sequence at its first line; also when the failing call is a   *)
(* re-initialization of a detector initialized successfully before.        *)
C23_FailedInitNotInitialized ==
    appInit = "false" => ~isInitialized

(* C24: in basic mode (streaming, no ObjectDetector) capturePhoto captures *)
(* the frame and submits it to enhanceImage instead of ending in the       *)
(* enhancement-error path, and an orientation change raises no error.      *)
C24_BasicModeCaptures ==
    (objectDetector = "null" /\ streaming) =>
        /\ lastCapture \in {"none", "submitted"}
        /\ ~orientationThrew

(* C25: once backToCamera has run, currentOriginalImage,                   *)
(* currentEnhancedImage and currentPrompt stay null and the processing     *)
(* overlay stays inactive until the next capturePhoto begins, however the  *)
(* pending enhanceImage completion and the delayed backToCamera of         *)
(* saveImage interleave.                                                   *)
C25_ClearedUntilNextCapture ==
    backRan =>
        /\ currentOriginalImage = 0
        /\ currentEnhancedImage = 0
        /\ currentPrompt = 0
        /\ ~overlayActive

(* C26: a touchend saves an image only when, between its touchstart and    *)
(* itself, the finger moved and lies more than 30% of the window width     *)
(* from where it started; a gesture without a touchmove saves nothing,     *)
(* whatever gestures came before; a rightward swipe saves the original, a  *)
(* leftward one the enhanced image.                                        *)
C26_SwipeWithinGesture ==
    /\ lastSwipe.saved # "none" =>
         /\ lastSwipe.moved
         /\ 10 * Abs(lastSwipe.deltaX) > 3 * innerWidth
    /\ lastSwipe.saved = "original" => lastSwipe.deltaX > 0
    /\ lastSwipe.saved = "enhanced" => lastSwipe.deltaX < 0

====
